---- MODULE Spec2Model ----
(***************************************************************************)
(* Model of the Sac Transit display server (transit_server.py): the        *)
(* process-wide feed cache, the TTL-gated loaders, the calendar resolver,  *)
(* the arrival and alert query engines and the /api/display handler.       *)
(*                                                                         *)
(* Text is modelled as a sequence of one-character strings, so formatting  *)
(* ("<route> <mins>"), strip() and lower() are computed and not assumed.   *)
(* A pandas cell read from an empty CSV field, or produced by a left merge *)
(* without a match, is NaN.  time.time() and datetime.now(PACIFIC) are     *)
(* both read from `clock`, counted in seconds of local time.               *)
(***************************************************************************)
EXTENDS Integers, Sequences, FiniteSets, TLC

VARIABLES
    cache,   \* the module-level Cache() object
    clock,   \* wall clock, seconds
    pc,      \* per request: not yet arrived ("idle"), suspended at an await, or over
    loc,     \* per request in flight: its arguments and the locals alive across awaits
    resp,    \* per request: the value returned by display
    q        \* last direct call of a query function and what it returned

vars == <<cache, clock, pc, loc, resp, q>>

(***************************************************************************)
(* Program constants                                                       *)
(***************************************************************************)
GTFS_REFRESH_SECONDS == 24 * 3600
RT_REFRESH_SECONDS == 15
HorizonSeconds == 4 * 3600
DefaultLimit == 3
DefaultMaxLen == 160
DaySeconds == 24 * 3600

(***************************************************************************)
(* Bounds of the model                                                     *)
(***************************************************************************)
NumReqs == 2        \* display requests served in one run, possibly concurrently
MaxLimit == 3       \* largest limit passed to next_scheduled_arrivals_for_stop
MaxExc == 2         \* rows of calendar_dates.txt in the calendar inputs
MaxRows == 3        \* rows of stop_times.txt in the arrival inputs
MaxAlerts == 2      \* entities of the alerts message in the alert inputs

(***************************************************************************)
(* Text                                                                    *)
(***************************************************************************)
None == [none |-> TRUE]
NaN == <<"<NaN>">>
NoFilter == <<"<None>">>     \* route=None
Ellipsis == "..."            \* the one character U+2026

NoAlertsText == <<"N", "o", " ", "a", "l", "e", "r", "t", "s">>
DashDash == <<"-", "-">>
RouteUnknown == <<"r", "o", "u", "t", "e", "?">>
NanText == <<"n", "a", "n">>
Separator == <<" ", "|", " ">>

Digit(d) == CASE d = 0 -> "0" [] d = 1 -> "1" [] d = 2 -> "2" [] d = 3 -> "3"
              [] d = 4 -> "4" [] d = 5 -> "5" [] d = 6 -> "6" [] d = 7 -> "7"
              [] d = 8 -> "8" [] d = 9 -> "9"

Digits == {"0", "1", "2", "3", "4", "5", "6", "7", "8", "9"}

RECURSIVE IntToText(_)
\* str(n) of a non-negative int
IntToText(n) == IF n < 10 THEN <<Digit(n)>>
                ELSE IntToText(n \div 10) \o <<Digit(n % 10)>>

\* str.lower() on the alphabet of the model
LowerChar(c) == CASE c = "A" -> "a" [] c = "B" -> "b" [] c = "G" -> "g"
                  [] c = "N" -> "n" [] OTHER -> c

Lower(s) == [i \in 1..Len(s) |-> LowerChar(s[i])]

RECURSIVE LStrip(_)
LStrip(s) == IF s # <<>> /\ Head(s) = " " THEN LStrip(Tail(s)) ELSE s

RECURSIVE RStrip(_)
RStrip(s) == IF s # <<>> /\ s[Len(s)] = " " THEN RStrip(SubSeq(s, 1, Len(s) - 1)) ELSE s

\* str.strip()
Strip(s) == RStrip(LStrip(s))

\* str(x) of a cell: NaN prints as "nan"
PyStr(x) == IF x = NaN THEN NanText ELSE x

RECURSIVE JoinWith(_, _)
\* sep.join(msgs)
JoinWith(sep, msgs) == IF msgs = <<>> THEN <<>>
                       ELSE IF Len(msgs) = 1 THEN msgs[1]
                       ELSE msgs[1] \o sep \o JoinWith(sep, Tail(msgs))

(***************************************************************************)
(* Clock readings: time.time(), datetime.now(PACIFIC)                      *)
(***************************************************************************)
BaseDate == 20240101   \* the local date of day 0 of the clock, a Monday

\* datetime.now(PACIFIC).date(): [int |-> YYYYMMDD, wd |-> date.weekday()]
Today(t) == [int |-> BaseDate + (t \div DaySeconds), wd |-> (t \div DaySeconds) % 7]

\* now.hour * 3600 + now.minute * 60 + now.second
NowServiceSeconds(t) == t % DaySeconds

(***************************************************************************)
(* Service Calendar Resolver                                               *)
(*   calendar:       [ver, wdcols, rows], row [service_id, start_date,     *)
(*                   end_date, days] (days: the weekday columns set to 1)  *)
(*   calendar_dates: [ver, rows], row [service_id, date, exception_type]   *)
(***************************************************************************)
Empty(table) == table.rows = <<>>

\* the selection by date range alone, whatever the weekday
RuleServicesAnyDay(cal, today) ==
    IF cal # None /\ ~Empty(cal)
    THEN LET in_range == SelectSeq(cal.rows, LAMBDA r :
                              r.start_date <= today.int /\ r.end_date >= today.int)
         IN {in_range[i].service_id : i \in 1..Len(in_range)}
    ELSE {}

\* lines 125-138: the services selected by calendar.txt
RuleServices(cal, today) ==
    IF cal # None /\ ~Empty(cal)
    THEN LET in_range == SelectSeq(cal.rows, LAMBDA r :
                              r.start_date <= today.int /\ r.end_date >= today.int)
             on_day == IF today.wd \in cal.wdcols
                       THEN SelectSeq(in_range, LAMBDA r : today.wd \in r.days)
                       ELSE in_range
         IN {on_day[i].service_id : i \in 1..Len(on_day)}
    ELSE {}

RECURSIVE ApplyAddedOnly(_, _)
\* the loop without its `elif et == 2` branch
ApplyAddedOnly(active, today_rows) ==
    IF today_rows = <<>> THEN active
    ELSE LET r == Head(today_rows)
             next == IF r.exception_type = 1 THEN active \cup {r.service_id} ELSE active
         IN ApplyAddedOnly(next, Tail(today_rows))

RECURSIVE ApplyExceptions(_, _)
\* lines 148-154: the rows dated today, in file order
ApplyExceptions(active, today_rows) ==
    IF today_rows = <<>> THEN active
    ELSE LET r == Head(today_rows)
             next == IF r.exception_type = 1 THEN active \cup {r.service_id}
                     ELSE IF r.exception_type = 2 THEN active \ {r.service_id}
                     ELSE active
         IN ApplyExceptions(next, Tail(today_rows))

active_service_ids_for_today(c, t) ==
    LET today == Today(t)
        active == RuleServices(c.calendar, today)
        cald == c.calendar_dates
    IN IF cald # None /\ ~Empty(cald)
       THEN ApplyExceptions(active,
                SelectSeq(cald.rows, LAMBDA r : r.date = today.int))
       ELSE active

(***************************************************************************)
(* Arrival Query Engine                                                    *)
(*   stop_times: [ver, rows], row [trip_id, stop_id, departure_time,       *)
(*               arrival_time]; a time is <<h, m, s>> or NoTime (NaN)      *)
(*   trips:      [ver, hasService, rows], row [trip_id, route_id,          *)
(*               service_id]                                               *)
(*   routes:     [ver, rows], row [route_id, route_short_name,             *)
(*               route_long_name]                                          *)
(***************************************************************************)
NoTime == <<>>
NanService == "nan"     \* str() of the service_id of a row without a trip

\* int(h) * 3600 + int(m) * 60 + int(s)
gtfs_time_to_seconds(t) == t[1] * 3600 + t[2] * 60 + t[3]

RECURSIVE Flatten(_)
\* the rows of a merge: the matches of each left row, in the order of the left rows
Flatten(ss) == IF ss = <<>> THEN <<>> ELSE Head(ss) \o Flatten(Tail(ss))

\* lines 182-188: the rows of the stop, with dep and dep_sec
StopRows(st, stop_id) ==
    LET st2 == SelectSeq(st.rows, LAMBDA r : r.stop_id = stop_id)
        dep(r) == IF r.departure_time # NoTime THEN r.departure_time ELSE r.arrival_time
        kept == SelectSeq(st2, LAMBDA r : dep(r) # NoTime)
    IN [i \in 1..Len(kept) |->
           [trip_id |-> kept[i].trip_id, dep_sec |-> gtfs_time_to_seconds(dep(kept[i]))]]

\* the window without its fallback to everything from now on
UpcomingWindowOnly(st2, now_sec) ==
    SelectSeq(st2, LAMBDA r : r.dep_sec >= now_sec /\ r.dep_sec <= now_sec + HorizonSeconds)

\* lines 190-197: the 4h window, else everything from now on
Upcoming(st2, now_sec) ==
    LET horizon == now_sec + HorizonSeconds
        inwin == SelectSeq(st2, LAMBDA r : r.dep_sec >= now_sec /\ r.dep_sec <= horizon)
    IN IF inwin # <<>> THEN inwin
       ELSE SelectSeq(st2, LAMBDA r : r.dep_sec >= now_sec)

\* line 203: upcoming.merge(trips[needed_cols], on="trip_id", how="left")
MergeTrips(upcoming, trips) ==
    LET one(r) ==
          LET m == SelectSeq(trips.rows, LAMBDA t : t.trip_id = r.trip_id)
          IN IF m = <<>>
             THEN <<[trip_id |-> r.trip_id, dep_sec |-> r.dep_sec,
                     route_id |-> NaN, service_id |-> NanService]>>
             ELSE [i \in 1..Len(m) |->
                     [trip_id |-> r.trip_id, dep_sec |-> r.dep_sec,
                      route_id |-> m[i].route_id, service_id |-> m[i].service_id]]
    IN Flatten([i \in 1..Len(upcoming) |-> one(upcoming[i])])

\* the filter without its fallback to the unfiltered rows
FilterActiveStrict(upcoming, trips, active_sids) ==
    IF active_sids # {} /\ trips.hasService
    THEN SelectSeq(upcoming, LAMBDA r : r.service_id \in active_sids)
    ELSE upcoming

\* lines 205-208: keep the active services unless that keeps nothing
FilterActive(upcoming, trips, active_sids) ==
    IF active_sids # {} /\ trips.hasService
    THEN LET filtered == SelectSeq(upcoming, LAMBDA r : r.service_id \in active_sids)
         IN IF filtered # <<>> THEN filtered ELSE upcoming
    ELSE upcoming

\* lines 216-221
route_name(short, long, route_id) ==
    LET sn == Strip(PyStr(short))   \* `x or ""` keeps NaN, a truthy float
        ln == Strip(PyStr(long))
    IN IF sn # <<>> THEN sn
       ELSE IF ln # <<>> THEN ln
       ELSE IF route_id # <<>> THEN PyStr(route_id) ELSE RouteUnknown

\* lines 210-223: left merge with routes on route_id, then the label
MergeRoutes(upcoming, routes) ==
    LET one(r) ==
          LET m == SelectSeq(routes.rows, LAMBDA x : x.route_id = r.route_id)
              row(sn, ln) == [trip_id |-> r.trip_id, dep_sec |-> r.dep_sec,
                              route_id |-> r.route_id, service_id |-> r.service_id,
                              route |-> route_name(sn, ln, r.route_id)]
          IN IF m = <<>> THEN <<row(NaN, NaN)>>
             ELSE [i \in 1..Len(m) |-> row(m[i].route_short_name, m[i].route_long_name)]
    IN Flatten([i \in 1..Len(upcoming) |-> one(upcoming[i])])

\* lines 173-223: the labelled candidate rows, before sorting
Candidates(c, stop_id, t) ==
    IF c.stop_times = None \/ c.trips = None \/ c.routes = None THEN <<>>
    ELSE LET active_sids == active_service_ids_for_today(c, t)
             st2 == StopRows(c.stop_times, stop_id)
             upcoming == Upcoming(st2, NowServiceSeconds(t))
         IN IF st2 = <<>> \/ upcoming = <<>> THEN <<>>
            ELSE MergeRoutes(
                   FilterActive(MergeTrips(upcoming, c.trips), c.trips, active_sids),
                   c.routes)

RemoveAt(s, i) == SubSeq(s, 1, i - 1) \o SubSeq(s, i + 1, Len(s))

RECURSIVE SortValues(_)
\* line 224: sort_values("dep_sec") with the default, unstable sort: every
\* ordering of the rows that is ascending in dep_sec
SortValues(s) ==
    IF s = <<>> THEN {<<>>}
    ELSE LET least == {i \in 1..Len(s) : \A j \in 1..Len(s) : s[i].dep_sec <= s[j].dep_sec}
         IN UNION {{<<s[i]>> \o rest : rest \in SortValues(RemoveAt(s, i))} : i \in least}

RECURSIVE TakeNoDedup(_, _, _, _)
\* the loop without its seen_dep test
TakeNoDedup(s, seen_dep, rows, limit) ==
    IF s = <<>> THEN rows
    ELSE LET rows2 == Append(rows, Head(s))
         IN IF Len(rows2) >= limit THEN rows2
            ELSE TakeNoDedup(Tail(s), seen_dep, rows2, limit)

RECURSIVE TakeDistinct(_, _, _, _)
\* lines 226-235
TakeDistinct(s, seen_dep, rows, limit) ==
    IF s = <<>> THEN rows
    ELSE IF Head(s).dep_sec \in seen_dep
         THEN TakeDistinct(Tail(s), seen_dep, rows, limit)
         ELSE LET rows2 == Append(rows, Head(s))
              IN IF Len(rows2) >= limit THEN rows2
                 ELSE TakeDistinct(Tail(s), seen_dep \cup {Head(s).dep_sec}, rows2, limit)

Max(a, b) == IF a >= b THEN a ELSE b

\* the minutes rounded up
MinutesRoundedUp(dep_sec, now_sec) == Max(0, (dep_sec - now_sec + 59) \div 60)

\* line 239
Minutes(dep_sec, now_sec) == Max(0, (dep_sec - now_sec) \div 60)

\* line 240: f"{r['route']} {mins}"
FormatLine(route, mins) == route \o <<" ">> \o IntToText(mins)

\* lines 237-242
FormatRows(rows, now_sec) ==
    [i \in 1..Len(rows) |-> FormatLine(rows[i].route, Minutes(rows[i].dep_sec, now_sec))]

\* lines 169-242: one result per outcome of the sort; rows are the rows behind
\* the strings of out
next_scheduled_arrivals_for_stop(c, stop_id, limit, t) ==
    {LET rows == TakeDistinct(sorted, {}, <<>>, limit)
     IN [rows |-> rows, out |-> FormatRows(rows, NowServiceSeconds(t))] :
        sorted \in SortValues(Candidates(c, stop_id, t))}

(***************************************************************************)
(* Display client (src/pico_w.py): the parse of a line of the response     *)
(***************************************************************************)
DigitValue(c) == CHOOSE d \in 0..9 : Digit(d) = c

\* int(text) succeeds: decimal digits only, on the alphabet of the model
IsInt(text) == text # <<>> /\ \A i \in 1..Len(text) : text[i] \in Digits

RECURSIVE TextToInt(_)
\* int(text) of a text of digits
TextToInt(text) ==
    IF text = <<>> THEN 0
    ELSE 10 * TextToInt(SubSeq(text, 1, Len(text) - 1)) + DigitValue(text[Len(text)])

RECURSIVE SplitWords(_)
\* str.split(): the maximal runs of non-blank characters
SplitWords(s) ==
    LET t == LStrip(s)
        ends == {i \in 1..Len(t) : t[i] = " "}
        n == IF ends = {} THEN Len(t) + 1 ELSE CHOOSE i \in ends : \A j \in ends : i <= j
    IN IF t = <<>> THEN <<>>
       ELSE <<SubSeq(t, 1, n - 1)>> \o SplitWords(SubSeq(t, n, Len(t)))

\* (None, None)
NoParse == [ok |-> FALSE, route |-> <<>>, mins |-> 0]

\* pico_w.py lines 116-134
parse_route_mins(line) ==
    IF line = <<>> \/ line = DashDash THEN NoParse
    ELSE LET parts == SplitWords(Strip(line))
         IN IF Len(parts) < 2 THEN NoParse
            ELSE IF ~IsInt(parts[2]) THEN NoParse
            ELSE [ok |-> TRUE, route |-> parts[1], mins |-> TextToInt(parts[2])]

(***************************************************************************)
(* Alert Query Engine                                                      *)
(*   alerts: [ver, entity], entity [hasAlert, informed, header, desc]:     *)
(*   informed is the route_id of each informed entity (<<>> when unset),   *)
(*   header and desc are the texts of the translations                     *)
(***************************************************************************)
NoRouteSet == [isNone |-> TRUE, ids |-> {}]
RouteSet(ids) == [isNone |-> FALSE, ids |-> ids]

\* lines 245-265
route_ids_for_short_name(short_name, routes) ==
    IF short_name = NoFilter \/ short_name = <<>> \/ routes = None THEN NoRouteSet
    ELSE IF Empty(routes) THEN NoRouteSet
    ELSE LET sn == Lower(Strip(short_name))
             by_name == SelectSeq(routes.rows, LAMBDA r :
                            Lower(Strip(PyStr(r.route_short_name))) = sn)
             matched == IF by_name # <<>> THEN by_name
                        ELSE SelectSeq(routes.rows, LAMBDA r : Lower(r.route_id) = sn)
         IN IF sn = <<>> THEN NoRouteSet
            ELSE RouteSet({matched[i].route_id : i \in 1..Len(matched)})

\* a filter that keeps every alert
AlertAppliesAlways(alert, allowed_route_ids) == TRUE

\* lines 268-276
alert_applies_to_routes(alert, allowed_route_ids) ==
    IF allowed_route_ids.isNone THEN TRUE
    ELSE \E i \in 1..Len(alert.informed) :
            LET rid == Strip(alert.informed[i])
            IN rid # <<>> /\ rid \in allowed_route_ids.ids

\* lines 292-296
AlertText(alert) ==
    IF alert.header # <<>> THEN Strip(alert.header[1])
    ELSE IF alert.desc # <<>> THEN Strip(alert.desc[1])
    ELSE <<>>

\* line 304
Truncate(out, max_len) ==
    IF Len(out) > max_len THEN SubSeq(out, 1, max_len) \o <<Ellipsis>> ELSE out

\* lines 285-298
AlertMsgs(alerts, allowed_route_ids) ==
    LET kept == SelectSeq(alerts.entity, LAMBDA e :
                    e.hasAlert /\ alert_applies_to_routes(e, allowed_route_ids)
                    /\ AlertText(e) # <<>>)
    IN [i \in 1..Len(kept) |-> AlertText(kept[i])]

\* lines 279-304
get_alert_text(c, route_filter, max_len) ==
    IF c.alerts = None THEN NoAlertsText
    ELSE LET allowed_route_ids == route_ids_for_short_name(route_filter, c.routes)
             msgs == AlertMsgs(c.alerts, allowed_route_ids)
         IN IF msgs = <<>> THEN NoAlertsText
            ELSE Truncate(JoinWith(Separator, msgs), max_len)

(***************************************************************************)
(* The upstream feeds, as far as the server can tell them apart            *)
(***************************************************************************)
Files == <<"stops", "stop_times", "trips", "routes", "calendar", "calendar_dates">>

T0 == DaySeconds + 8 * 3600     \* the run starts on day 1 (a Tuesday) at 08:00:00

R10 == <<"1", "0">>
R20 == <<"2", "0">>
RG == <<"G">>
Gold == <<"G", "o", "l", "d">>
BLine == <<"B", " ", "L", "i", "n", "e">>
TitleText == <<"3", "9", "t", "h">>

\* the rows the agency publishes; ver names the request whose refresh parsed
\* the object (a request refreshes each feed at most once)
FeedTable(name, ver) ==
    CASE name = "stops" ->
           [ver |-> ver, rows |-> <<[stop_id |-> "S1"], [stop_id |-> "S2"]>>]
      [] name = "stop_times" ->
           [ver |-> ver, rows |-> <<
              [trip_id |-> "T1", stop_id |-> "S1", departure_time |-> <<8, 3, 0>>,
               arrival_time |-> <<8, 2, 30>>],
              [trip_id |-> "T2", stop_id |-> "S1", departure_time |-> NoTime,
               arrival_time |-> <<8, 3, 0>>],
              [trip_id |-> "T3", stop_id |-> "S1", departure_time |-> <<8, 9, 30>>,
               arrival_time |-> NoTime],
              [trip_id |-> "T1", stop_id |-> "S2", departure_time |-> <<8, 20, 0>>,
               arrival_time |-> <<8, 20, 0>>]>>]
      [] name = "trips" ->
           [ver |-> ver, hasService |-> TRUE, rows |-> <<
              [trip_id |-> "T1", route_id |-> R10, service_id |-> "WK"],
              [trip_id |-> "T2", route_id |-> R20, service_id |-> "SA"],
              [trip_id |-> "T3", route_id |-> RG, service_id |-> "WK"]>>]
      [] name = "routes" ->
           [ver |-> ver, rows |-> <<
              [route_id |-> R10, route_short_name |-> R10, route_long_name |-> NaN],
              [route_id |-> R20, route_short_name |-> <<" ">>, route_long_name |-> BLine],
              [route_id |-> RG, route_short_name |-> Gold, route_long_name |-> NaN]>>]
      [] name = "calendar" ->
           [ver |-> ver, wdcols |-> 0..6, rows |-> <<
              [service_id |-> "WK", start_date |-> 20240101, end_date |-> 20241231,
               days |-> 0..4],
              [service_id |-> "SA", start_date |-> 20240101, end_date |-> 20241231,
               days |-> {5}]>>]
      [] name = "calendar_dates" ->
           [ver |-> ver, rows |-> <<
              [service_id |-> "WK", date |-> 20240103, exception_type |-> 2]>>]

AllOk == [n \in {Files[i] : i \in 1..6} |-> "ok"]

\* the archives a fetch of GTFS_ZIP_URL can deliver: not a zip file; complete;
\* without stops.txt or without routes.txt; with one file that pd.read_csv
\* cannot parse
Zips ==
    {[valid |-> FALSE, files |-> AllOk]}
    \cup {[valid |-> TRUE, files |-> AllOk]}
    \cup {[valid |-> TRUE, files |-> [AllOk EXCEPT ![Files[i]] = "missing"]] : i \in {1, 4}}
    \cup {[valid |-> TRUE, files |-> [AllOk EXCEPT ![Files[i]] = "corrupt"]] : i \in 1..6}

Banner == <<"D", "e", "t", "o", "u", "r">>
Delay == <<"D", "e", "l", "a", "y">>

\* the parsed alerts message the agency publishes
AlertFeed(ver) ==
    [ver |-> ver, entity |-> <<
        [hasAlert |-> TRUE, informed |-> <<R10>>, header |-> <<Banner>>, desc |-> <<>>],
        [hasAlert |-> TRUE, informed |-> <<<<>>>>, header |-> <<>>, desc |-> <<Delay>>]>>]

TripFeed(ver) == [ver |-> ver, entity |-> <<>>]

\* what a fetch of a realtime URL delivers: bytes that parse, or not
RtBytes == {"good", "garbled"}

(***************************************************************************)
(* The cache and the display coroutine                                     *)
(***************************************************************************)
Reqs == 1..NumReqs
\* the query string the display clients send: stop_id, route
DisplayArgs == {[stop_id |-> "S1", route |-> R10]}

NoResp == [none |-> TRUE]
NoQuery == [fn |-> "none"]
IdleLoc == [stop_id |-> "S1", title |-> TitleText, route |-> NoFilter,
            now |-> 0, trips_bin |-> "none"]

\* cache = Cache()
EmptyCache ==
    [gtfs_loaded_at |-> 0, stops |-> None, stop_times |-> None, trips |-> None,
     routes |-> None, calendar |-> None, calendar_dates |-> None,
     rt_loaded_at |-> 0, trip_updates |-> None, alerts |-> None]

Init ==
    /\ cache = EmptyCache
    /\ clock = T0
    /\ pc = [r \in Reqs |-> "idle"]
    /\ loc = [r \in Reqs |-> IdleLoc]
    /\ resp = [r \in Reqs |-> NoResp]
    /\ q = NoQuery

\* lines 69-74: read_csv(name); a file that is not in the archive gives None
read_csv(zip, name, ver) ==
    IF zip.files[name] = "missing" THEN None ELSE FeedTable(name, ver)

RECURSIVE LoadFromKeepMissing(_, _, _, _)
\* a load that leaves the cached table in place when the archive lacks the file
LoadFromKeepMissing(c, zip, ver, k) ==
    IF k > Len(Files) THEN [cache |-> c, raised |-> FALSE]
    ELSE IF zip.files[Files[k]] = "corrupt" THEN [cache |-> c, raised |-> TRUE]
    ELSE IF zip.files[Files[k]] = "missing" THEN LoadFromKeepMissing(c, zip, ver, k + 1)
    ELSE LoadFromKeepMissing([c EXCEPT ![Files[k]] = read_csv(zip, Files[k], ver)],
                             zip, ver, k + 1)

RECURSIVE LoadFrom(_, _, _, _)
\* lines 76-81: the six assignments in order; pd.read_csv raises on a file it
\* cannot parse, after the assignments before it have been made
LoadFrom(c, zip, ver, k) ==
    IF k > Len(Files) THEN [cache |-> c, raised |-> FALSE]
    ELSE IF zip.files[Files[k]] = "corrupt" THEN [cache |-> c, raised |-> TRUE]
    ELSE LoadFrom([c EXCEPT ![Files[k]] = read_csv(zip, Files[k], ver)], zip, ver, k + 1)

\* line 62
GtfsFresh(c, now) == c.stops # None /\ (now - c.gtfs_loaded_at) < GTFS_REFRESH_SECONDS

\* line 89
RtFresh(c, now) == c.alerts # None /\ (now - c.rt_loaded_at) < RT_REFRESH_SECONDS

RECURSIVE PadArrivals(_)
\* lines 328-329
PadArrivals(arrivals) ==
    IF Len(arrivals) < 3 THEN PadArrivals(Append(arrivals, DashDash)) ELSE arrivals

\* a response carrying the title and two arrivals only
ResponseThreeLines(title, arrivals, ticker) ==
    [title |-> title,
     lines |-> <<title, arrivals[1], arrivals[2]>>,
     ticker |-> ticker]

\* lines 331-335
Response(title, arrivals, ticker) ==
    [title |-> title,
     lines |-> <<title, arrivals[1], arrivals[2], arrivals[3]>>,
     ticker |-> ticker]

\* an exception leaves display: the request fails, nothing is returned
Raise(r, c, l) ==
    /\ cache' = c
    /\ pc' = [pc EXCEPT ![r] = "failed"]
    /\ loc' = [loc EXCEPT ![r] = IdleLoc]
    /\ UNCHANGED <<resp, clock, q>>

\* lines 327-335: both loaders have returned
Answer(r, c, l) ==
    \E a \in next_scheduled_arrivals_for_stop(c, l.stop_id, DefaultLimit, clock) :
        /\ resp' = [resp EXCEPT ![r] =
               Response(l.title, PadArrivals(a.out),
                        get_alert_text(c, l.route, DefaultMaxLen))]
        /\ cache' = c
        /\ pc' = [pc EXCEPT ![r] = "done"]
        /\ loc' = [loc EXCEPT ![r] = IdleLoc]
        /\ UNCHANGED <<clock, q>>

\* lines 325, 87-93: ensure_rt_loaded up to its first await
EnterRt(r, c, l) ==
    IF RtFresh(c, clock) THEN Answer(r, c, l)
    ELSE /\ cache' = c
         /\ pc' = [pc EXCEPT ![r] = "rt_trips"]
         /\ loc' = [loc EXCEPT ![r] = [l EXCEPT !.now = clock]]
         /\ UNCHANGED <<resp, clock, q>>

\* lines 315-324, 60-66: a request arrives and runs to its first await
Request(r, stop_id, title, route) ==
    /\ pc[r] = "idle"
    /\ LET l == [IdleLoc EXCEPT !.stop_id = stop_id, !.title = title, !.route = route]
       IN IF GtfsFresh(cache, clock) THEN EnterRt(r, cache, l)
          ELSE /\ pc' = [pc EXCEPT ![r] = "gtfs_fetch"]
               /\ loc' = [loc EXCEPT ![r] = [l EXCEPT !.now = clock]]
               /\ UNCHANGED <<cache, resp, clock, q>>

\* lines 53-57, 66: the fetch of the archive fails (transport error, HTTP status)
GtfsFetchFails(r) ==
    /\ pc[r] = "gtfs_fetch"
    /\ Raise(r, cache, loc[r])

\* lines 66-84, 325: the archive arrives and is loaded
GtfsFetched(r, zip) ==
    /\ pc[r] = "gtfs_fetch"
    /\ IF ~zip.valid THEN Raise(r, cache, loc[r])
       ELSE LET res == LoadFrom(cache, zip, r, 1)
            IN IF res.raised THEN Raise(r, res.cache, loc[r])
               ELSE EnterRt(r, [res.cache EXCEPT !.gtfs_loaded_at = loc[r].now], loc[r])

\* line 93 or 94: a realtime fetch fails
RtFetchFails(r) ==
    /\ pc[r] \in {"rt_trips", "rt_alerts"}
    /\ Raise(r, cache, loc[r])

\* the trip updates stored as soon as they arrive, before the alerts are fetched
RtTripsStoredEarly(r, bytes) ==
    /\ pc[r] = "rt_trips"
    /\ pc' = [pc EXCEPT ![r] = "rt_alerts"]
    /\ loc' = [loc EXCEPT ![r].trips_bin = bytes]
    /\ cache' = IF bytes = "good" THEN [cache EXCEPT !.trip_updates = TripFeed(r)]
                ELSE cache
    /\ UNCHANGED <<resp, clock, q>>

\* lines 93-94: the trip updates arrive, the alerts are requested
RtTripsFetched(r, bytes) ==
    /\ pc[r] = "rt_trips"
    /\ pc' = [pc EXCEPT ![r] = "rt_alerts"]
    /\ loc' = [loc EXCEPT ![r].trips_bin = bytes]
    /\ UNCHANGED <<cache, resp, clock, q>>

\* lines 94-106, 327-335: the alerts arrive, both messages are parsed and stored
RtAlertsFetched(r, bytes) ==
    /\ pc[r] = "rt_alerts"
    /\ IF loc[r].trips_bin = "garbled" \/ bytes = "garbled" THEN Raise(r, cache, loc[r])
       ELSE Answer(r, [cache EXCEPT !.trip_updates = TripFeed(r),
                                    !.alerts = AlertFeed(r),
                                    !.rt_loaded_at = loc[r].now], loc[r])

\* the instants at which requests arrive and fetches return: the start, one
\* realtime TTL later, one static TTL later
Instants == {T0, T0 + RT_REFRESH_SECONDS, T0 + GTFS_REFRESH_SECONDS}

\* time passes
Tick(t) ==
    /\ t > clock
    /\ clock' = t
    /\ UNCHANGED <<cache, pc, loc, resp, q>>

Next ==
    \/ \E r \in Reqs, a \in DisplayArgs : Request(r, a.stop_id, TitleText, a.route)
    \/ \E r \in Reqs : GtfsFetchFails(r)
    \/ \E r \in Reqs, zip \in Zips : GtfsFetched(r, zip)
    \/ \E r \in Reqs : RtFetchFails(r)
    \/ \E r \in Reqs, bytes \in RtBytes : RtTripsFetched(r, bytes)
    \/ \E r \in Reqs, bytes \in RtBytes : RtAlertsFetched(r, bytes)
    \/ \E t \in Instants : Tick(t)

Spec == Init /\ [][Next]_vars

\* the archives that are fetched and parsed without an error
GoodZips == {zip \in Zips : zip.valid /\ \A i \in 1..Len(Files) : zip.files[Files[i]] # "corrupt"}

\* the runs in which every fetch and every parse succeeds
NextAllSucceed ==
    \/ \E r \in Reqs, a \in DisplayArgs : Request(r, a.stop_id, TitleText, a.route)
    \/ \E r \in Reqs, zip \in GoodZips : GtfsFetched(r, zip)
    \/ \E r \in Reqs : RtTripsFetched(r, "good")
    \/ \E r \in Reqs : RtAlertsFetched(r, "good")
    \/ \E t \in Instants : Tick(t)

SpecAllSucceed == Init /\ [][NextAllSucceed]_vars

(***************************************************************************)
(* The query functions called directly on a loaded cache                   *)
(***************************************************************************)
RECURSIVE SeqsUpTo(_, _)
\* the sequences over S of length at most n
SeqsUpTo(S, n) ==
    IF n = 0 THEN {<<>>}
    ELSE LET shorter == SeqsUpTo(S, n - 1)
         IN shorter \cup {Append(s, x) : s \in shorter, x \in S}

Idle ==
    /\ clock = T0
    /\ pc = [r \in Reqs |-> "idle"]
    /\ loc = [r \in Reqs |-> IdleLoc]
    /\ resp = [r \in Reqs |-> NoResp]
    /\ q = NoQuery

\* a cache after one complete load of the feeds above
LoadedCache ==
    [gtfs_loaded_at |-> T0, stops |-> FeedTable("stops", 1),
     stop_times |-> FeedTable("stop_times", 1), trips |-> FeedTable("trips", 1),
     routes |-> FeedTable("routes", 1), calendar |-> FeedTable("calendar", 1),
     calendar_dates |-> FeedTable("calendar_dates", 1),
     rt_loaded_at |-> T0, trip_updates |-> TripFeed(1), alerts |-> AlertFeed(1)]

\* ---- calendar inputs ----
TodayInt == Today(T0).int

CalendarInputs ==
    {None,
     [ver |-> 1, wdcols |-> 0..6, rows |-> <<>>],
     FeedTable("calendar", 1),
     [ver |-> 1, wdcols |-> {}, rows |-> <<
        [service_id |-> "WK", start_date |-> 20240101, end_date |-> 20241231,
         days |-> {}]>>],
     [ver |-> 1, wdcols |-> 0..6, rows |-> <<
        [service_id |-> "WK", start_date |-> TodayInt + 1, end_date |-> 20241231,
         days |-> 0..4],
        [service_id |-> "SA", start_date |-> 20240101, end_date |-> TodayInt,
         days |-> 1..5]>>]}

ExceptionRows ==
    {[service_id |-> sid, date |-> d, exception_type |-> et] :
        sid \in {"WK", "SA"}, d \in {TodayInt}, et \in {1, 2}}
    \cup {[service_id |-> "WK", date |-> TodayInt + 1, exception_type |-> 2],
          [service_id |-> "SA", date |-> TodayInt - 1, exception_type |-> 1],
          [service_id |-> "SA", date |-> TodayInt, exception_type |-> 0]}

CalendarDatesInputs ==
    {None} \cup {[ver |-> 1, rows |-> rows] : rows \in SeqsUpTo(ExceptionRows, MaxExc)}

InitCalendar ==
    /\ Idle
    /\ \E cal \in CalendarInputs, cald \in CalendarDatesInputs :
          cache = [LoadedCache EXCEPT !.calendar = cal, !.calendar_dates = cald]

\* a call of active_service_ids_for_today()
QueryActive ==
    /\ q' = [fn |-> "active", at |-> clock,
             active |-> active_service_ids_for_today(cache, clock)]
    /\ UNCHANGED <<cache, clock, pc, loc, resp>>

NextCalendar == QueryActive

SpecCalendar == InitCalendar /\ [][NextCalendar]_vars

\* ---- arrival inputs ----
StopTimeRows ==
    {[trip_id |-> "T1", stop_id |-> "S1", departure_time |-> <<7, 59, 0>>, arrival_time |-> NoTime],
     [trip_id |-> "T1", stop_id |-> "S1", departure_time |-> <<8, 0, 0>>, arrival_time |-> NoTime],
     [trip_id |-> "T2", stop_id |-> "S1", departure_time |-> <<8, 3, 30>>, arrival_time |-> <<8, 3, 0>>],
     [trip_id |-> "T1", stop_id |-> "S1", departure_time |-> NoTime, arrival_time |-> <<8, 3, 30>>],
     [trip_id |-> "T9", stop_id |-> "S1", departure_time |-> <<8, 3, 30>>, arrival_time |-> NoTime],
     [trip_id |-> "T3", stop_id |-> "S1", departure_time |-> <<12, 0, 0>>, arrival_time |-> NoTime],
     [trip_id |-> "T3", stop_id |-> "S1", departure_time |-> <<25, 10, 0>>, arrival_time |-> NoTime],
     [trip_id |-> "T1", stop_id |-> "S1", departure_time |-> NoTime, arrival_time |-> NoTime],
     [trip_id |-> "T1", stop_id |-> "S2", departure_time |-> <<8, 1, 0>>, arrival_time |-> NoTime]}

StopTimesInputs == {[ver |-> 1, rows |-> rows] : rows \in SeqsUpTo(StopTimeRows, MaxRows)}

\* the other tables the arrival query reads
ArrivalCaches ==
    LET base == [LoadedCache EXCEPT !.calendar_dates = None]
    IN {base,
        [base EXCEPT !.calendar = None],
        [base EXCEPT !.trips = [ver |-> 1, hasService |-> FALSE,
                                rows |-> FeedTable("trips", 1).rows]],
        [base EXCEPT !.routes = None]}

InitArrivals ==
    /\ Idle
    /\ \E c \in ArrivalCaches, st \in StopTimesInputs :
          cache = [c EXCEPT !.stop_times = st]

\* a call of next_scheduled_arrivals_for_stop(stop_id, limit); parsed is what
\* the display client's parse_route_mins makes of each string returned
QueryArrivals(stop_id, limit) ==
    /\ \E a \in next_scheduled_arrivals_for_stop(cache, stop_id, limit, clock) :
          q' = [fn |-> "arrivals", stop_id |-> stop_id, limit |-> limit, at |-> clock,
                rows |-> a.rows, out |-> a.out,
                parsed |-> [i \in 1..Len(a.out) |-> parse_route_mins(a.out[i])]]
    /\ UNCHANGED <<cache, clock, pc, loc, resp>>

NextArrivals == \E limit \in 0..MaxLimit : QueryArrivals("S1", limit)

SpecArrivals == InitArrivals /\ [][NextArrivals]_vars

\* ---- alert inputs ----
TextA == <<"a">>
TextB == <<"b", " ">>
TextC == <<"c", "c">>

AlertEntities ==
    {[hasAlert |-> TRUE, informed |-> <<R10>>, header |-> <<TextA>>, desc |-> <<>>],
     [hasAlert |-> TRUE, informed |-> <<R20>>, header |-> <<>>, desc |-> <<TextB>>],
     [hasAlert |-> TRUE, informed |-> <<<<>>>>, header |-> <<TextC>>, desc |-> <<TextB>>],
     [hasAlert |-> TRUE, informed |-> <<R20, RG>>, header |-> <<<<>>, TextA>>, desc |-> <<TextC>>],
     [hasAlert |-> TRUE, informed |-> <<>>, header |-> <<>>, desc |-> <<>>],
     [hasAlert |-> FALSE, informed |-> <<>>, header |-> <<>>, desc |-> <<>>]}

AlertsInputs ==
    {None} \cup {[ver |-> 1, entity |-> es] : es \in SeqsUpTo(AlertEntities, MaxAlerts)}

RoutesInputs ==
    {None,
     [ver |-> 1, rows |-> <<>>],
     FeedTable("routes", 1),
     [ver |-> 1, rows |-> <<
        [route_id |-> R20, route_short_name |-> NaN, route_long_name |-> BLine]>>]}

FilterInputs ==
    {NoFilter, <<>>, <<" ">>, R10, <<" ", "1", "0">>, <<"g", "o", "l", "d">>,
     <<"g">>, <<"z">>, NanText}

MaxLenInputs == {2, DefaultMaxLen}

InitAlerts ==
    /\ Idle
    /\ \E routes \in RoutesInputs, alerts \in AlertsInputs :
          cache = [LoadedCache EXCEPT !.routes = routes, !.alerts = alerts]

\* a call of get_alert_text(route_filter, max_len)
QueryAlerts(route_filter, max_len) ==
    /\ q' = [fn |-> "alerts", route_filter |-> route_filter, max_len |-> max_len,
             allowed |-> route_ids_for_short_name(route_filter, cache.routes),
             text |-> get_alert_text(cache, route_filter, max_len)]
    /\ UNCHANGED <<cache, clock, pc, loc, resp>>

NextAlerts == \E f \in FilterInputs, n \in MaxLenInputs : QueryAlerts(f, n)

SpecAlerts == InitAlerts /\ [][NextAlerts]_vars

(***************************************************************************)
(* Properties                                                              *)
(***************************************************************************)
\* a load of the feed has completed before
GtfsSnapshotExists == cache.gtfs_loaded_at # 0
RtSnapshotExists == cache.rt_loaded_at # 0

InRtRefresh(r) == pc[r] \in {"rt_trips", "rt_alerts"}

\* C1: a refresh that fails while a previous snapshot of that feed exists does
\* not fail the display request: the request goes on with the stale snapshot.
C1_StaleSnapshotServed ==
    [][\A r \in Reqs :
          ((pc[r] = "gtfs_fetch" /\ GtfsSnapshotExists)
             \/ (InRtRefresh(r) /\ RtSnapshotExists))
          => pc'[r] # "failed"]_vars

\* C2: display never raises past its own call, whatever the fetches and the
\* parses do: no request ends in an exception.
C2_DisplayNeverRaises == \A r \in Reqs : pc[r] # "failed"

\* "<route_label> <integer_minutes>"
IsArrivalLine(s) ==
    \E i \in 2..(Len(s) - 1) :
        /\ s[i] = " "
        /\ \A j \in (i + 1)..Len(s) : s[j] \in Digits

ArrivalOrDash(s) == s = DashDash \/ IsArrivalLine(s)

\* C3 as stated: every response has exactly three lines, the title followed
\* by two arrivals, each "--" or "<route_label> <integer_minutes>".
C3_ThreeLines ==
    \A r \in Reqs : pc[r] = "done" =>
        /\ Len(resp[r].lines) = 3
        /\ resp[r].lines[1] = resp[r].title
        /\ ArrivalOrDash(resp[r].lines[2])
        /\ ArrivalOrDash(resp[r].lines[3])

\* C3 amended: every response has exactly four lines, the title followed by
\* three arrivals, each "--" or "<route_label> <integer_minutes>", the "--"
\* padding coming after the arrivals.
C3_FourLines ==
    \A r \in Reqs : pc[r] = "done" =>
        /\ Len(resp[r].lines) = 4
        /\ resp[r].lines[1] = resp[r].title
        /\ \A k \in 2..4 : ArrivalOrDash(resp[r].lines[k])
        /\ \A k \in 2..3 : resp[r].lines[k] = DashDash => resp[r].lines[k + 1] = DashDash

\* a response with two arrivals and one line of padding
C3_Witness ==
    \E r \in Reqs :
        /\ pc[r] = "done"
        /\ IsArrivalLine(resp[r].lines[2])
        /\ IsArrivalLine(resp[r].lines[3])
        /\ resp[r].lines[4] = DashDash

\* C4: a failing ensure_gtfs_loaded leaves the six tables and gtfs_loaded_at
\* as they were before the call.
C4_FailedLoadKeepsCache ==
    [][\A r \in Reqs :
          (pc[r] = "gtfs_fetch" /\ pc'[r] = "failed") => cache' = cache]_vars

RtSameRefresh ==
    \/ cache.trip_updates = None /\ cache.alerts = None /\ cache.rt_loaded_at = 0
    \/ /\ cache.trip_updates # None
       /\ cache.alerts # None
       /\ cache.trip_updates.ver = cache.alerts.ver

RtAllOrNone ==
    /\ (cache'.trip_updates # cache.trip_updates) <=> (cache'.alerts # cache.alerts)
    /\ (cache'.rt_loaded_at # cache.rt_loaded_at) => (cache'.alerts # cache.alerts)
    /\ \A r \in Reqs :
          /\ (InRtRefresh(r) /\ pc'[r] = "failed") =>
                /\ cache'.trip_updates = cache.trip_updates
                /\ cache'.alerts = cache.alerts
                /\ cache'.rt_loaded_at = cache.rt_loaded_at
          /\ (cache'.alerts # cache.alerts /\ pc[r] = "rt_alerts" /\ pc'[r] # "rt_alerts") =>
                cache'.rt_loaded_at = loc[r].now

\* C5: the realtime refresh is one unit: every step replaces trip_updates,
\* alerts and rt_loaded_at together or none of them, and the cached
\* trip_updates and alerts always come from the same refresh.
C5_RtOneUnit == []RtSameRefresh /\ [][RtAllOrNone]_vars

\* of two overlapping refreshes, that of request 2 has stored its pair while
\* that of request 1 is still waiting for its alerts
C5_Witness ==
    /\ cache.alerts # None
    /\ cache.alerts.ver = 2
    /\ cache.trip_updates.ver = 2
    /\ pc[1] = "rt_alerts" /\ loc[1].trips_bin = "good"

\* C6: once a load has completed at time t, a call at now fetches the bundle
\* if and only if now - t >= 24h (whatever files the loaded bundle had).
C6_FetchOnlyWhenStale ==
    [][\A r \in Reqs :
          (pc[r] = "idle" /\ pc'[r] # "idle" /\ GtfsSnapshotExists) =>
             ((pc'[r] = "gtfs_fetch")
                <=> (clock - cache.gtfs_loaded_at >= GTFS_REFRESH_SECONDS))]_vars

\* C7: next_scheduled_arrivals_for_stop(stop_id, limit) returns at most limit
\* entries, for every limit >= 0.
C7_AtMostLimit == q.fn = "arrivals" => Len(q.out) <= q.limit

\* C8: the returned entries are in ascending order of dep_sec and no two of
\* them have the same dep_sec.
C8_AscendingDistinct ==
    q.fn = "arrivals" =>
        /\ Len(q.out) = Len(q.rows)
        /\ \A i, j \in 1..Len(q.rows) : i < j => q.rows[i].dep_sec < q.rows[j].dep_sec

\* two StopTimes of the stop share the departure second of the first entry
\* and a later entry follows it
C8_Witness ==
    /\ q.fn = "arrivals"
    /\ Len(q.rows) >= 2
    /\ LET st2 == StopRows(cache.stop_times, q.stop_id)
       IN \E i, j \in 1..Len(st2) :
             i < j /\ st2[i].dep_sec = q.rows[1].dep_sec /\ st2[j].dep_sec = q.rows[1].dep_sec

\* the file positions of the exceptions of a service dated today, by type
ExceptionsAt(sid, et) ==
    IF cache.calendar_dates = None THEN {}
    ELSE {i \in 1..Len(cache.calendar_dates.rows) :
             LET r == cache.calendar_dates.rows[i]
             IN r.service_id = sid /\ r.date = Today(q.at).int /\ r.exception_type = et}

\* some CalendarRule of the service contains today and has today's weekday set
RuleSelects(sid) ==
    /\ cache.calendar # None
    /\ \E i \in 1..Len(cache.calendar.rows) :
          LET r == cache.calendar.rows[i]
          IN /\ r.service_id = sid
             /\ r.start_date <= Today(q.at).int /\ Today(q.at).int <= r.end_date
             /\ Today(q.at).wd \in r.days

ServiceIds == {"WK", "SA"}

\* C9 as stated: a rule-selected service with a removed exception today is
\* not active; a service no rule selects with an added exception today is.
C9_ExceptionOverride ==
    q.fn = "active" =>
        \A sid \in ServiceIds :
            /\ (RuleSelects(sid) /\ ExceptionsAt(sid, 2) # {}) => sid \notin q.active
            /\ (~RuleSelects(sid) /\ ExceptionsAt(sid, 1) # {}) => sid \in q.active

\* C9 amended: the same, provided no exception of the opposite type dated
\* today follows in calendar_dates (the last exception of the service decides).
C9_LastExceptionOverrides ==
    q.fn = "active" =>
        \A sid \in ServiceIds :
            /\ (RuleSelects(sid)
                  /\ \E i \in ExceptionsAt(sid, 2) : \A j \in ExceptionsAt(sid, 1) : j < i)
               => sid \notin q.active
            /\ (~RuleSelects(sid)
                  /\ \E i \in ExceptionsAt(sid, 1) : \A j \in ExceptionsAt(sid, 2) : j < i)
               => sid \in q.active

\* today's rule selects WK and an exception removes it, no rule selects SA and
\* an exception adds it
C9_Witness ==
    /\ q.fn = "active"
    /\ RuleSelects("WK") /\ ExceptionsAt("WK", 2) # {} /\ "WK" \notin q.active
    /\ ~RuleSelects("SA") /\ ExceptionsAt("SA", 1) # {} /\ "SA" \in q.active

\* the filter names no route of the cached table, by short name or identifier
NoRouteMatches(route_filter) ==
    \/ cache.routes = None
    \/ \A i \in 1..Len(cache.routes.rows) :
          LET r == cache.routes.rows[i]
              sn == Lower(Strip(route_filter))
          IN /\ r.route_short_name = NaN \/ Lower(Strip(r.route_short_name)) # sn
             /\ Lower(r.route_id) # sn

\* C10: a non-empty filter that matches no route is never treated as "no
\* filter": it resolves to the empty set, so get_alert_text returns "No alerts"
\* whatever the Route table and whatever alerts are loaded.
C10_UnmatchedFilterGivesNoAlerts ==
    (q.fn = "alerts" /\ q.route_filter \notin {NoFilter, <<>>}
       /\ NoRouteMatches(q.route_filter))
    => q.text = NoAlertsText

\* the alerts of the feed to keep, in feed order: every alert when
\* there is no filter, those with an informed entity on a route of R otherwise
KeptAlerts(noFilter, R) ==
    SelectSeq(cache.alerts.entity, LAMBDA e :
        /\ e.hasAlert
        /\ noFilter \/ \E k \in 1..Len(e.informed) : e.informed[k] \in R)

\* the texts of a sequence of alerts, those without text left out
TextsOf(alerts) ==
    LET withText == SelectSeq(alerts, LAMBDA e : AlertText(e) # <<>>)
    IN [i \in 1..Len(withText) |-> AlertText(withText[i])]

\* the text expected of a sequence of texts: "No alerts" for none, their
\* join by " | " when it fits max_len
IsJoinOf(text, msgs, max_len) ==
    /\ msgs = <<>> => text = NoAlertsText
    /\ (msgs # <<>> /\ Len(JoinWith(Separator, msgs)) <= max_len)
          => text = JoinWith(Separator, msgs)

\* C11: with a filter that resolves to a set R of route identifiers the text
\* get_alert_text returns is made of the texts of exactly the alerts with an
\* informed entity whose route identifier is in R; with no filter it is made
\* of the texts of all alerts; in both cases in feed order, joined by " | ".
C11_FilteredAlertTexts ==
    (q.fn = "alerts" /\ cache.alerts # None)
    => /\ q.route_filter \in {NoFilter, <<>>}
            => IsJoinOf(q.text, TextsOf(KeptAlerts(TRUE, {})), q.max_len)
       /\ (q.route_filter \notin {NoFilter, <<>>} /\ ~q.allowed.isNone)
            => IsJoinOf(q.text, TextsOf(KeptAlerts(FALSE, q.allowed.ids)), q.max_len)

\* a filter that resolves to a route: of two alerts with a text the one on that
\* route is returned and the other is left out
C11_Witness ==
    /\ q.fn = "alerts" /\ cache.alerts # None
    /\ ~q.allowed.isNone /\ q.allowed.ids # {}
    /\ Len(TextsOf(cache.alerts.entity)) = 2
    /\ Len(TextsOf(KeptAlerts(FALSE, q.allowed.ids))) = 1
    /\ q.text = TextsOf(KeptAlerts(FALSE, q.allowed.ids))[1]

\* the StopTimes of the queried stop that have a time, with their dep_sec
StopTimesOfStop ==
    IF cache.stop_times = None THEN {}
    ELSE LET st2 == StopRows(cache.stop_times, q.stop_id)
         IN {st2[k] : k \in 1..Len(st2)}

\* C12: every entry returned by next_scheduled_arrivals_for_stop comes from a
\* StopTime whose dep_sec is at or after now_sec, and its minutes value is
\* floor((dep_sec - now_sec) / 60), which is >= 0.
C12_MinutesFromNow ==
    q.fn = "arrivals"
    => \A i \in 1..Len(q.rows) :
          LET r == q.rows[i]
              now_sec == q.at % DaySeconds
          IN /\ \E x \in StopTimesOfStop : x.trip_id = r.trip_id /\ x.dep_sec = r.dep_sec
             /\ r.dep_sec >= now_sec
             /\ (r.dep_sec - now_sec) \div 60 >= 0
             /\ q.out[i] = r.route \o <<" ">> \o IntToText((r.dep_sec - now_sec) \div 60)

\* the stop has a departure before now, which is left out, and an entry whose
\* departure is not a whole number of minutes away
C12_Witness ==
    /\ q.fn = "arrivals"
    /\ \E x \in StopTimesOfStop : x.dep_sec < (q.at % DaySeconds)
    /\ \E i \in 1..Len(q.rows) :
          /\ (q.rows[i].dep_sec - (q.at % DaySeconds)) % 60 # 0
          /\ q.rows[i].dep_sec - (q.at % DaySeconds) > 60

\* the static tables of a cache all come from the bundle of one request
OneBundle(c) ==
    \A i, j \in 1..Len(Files) :
        (c[Files[i]] # None /\ c[Files[j]] # None) => c[Files[i]].ver = c[Files[j]].ver

\* C13: when every fetch and parse succeeds, the six static tables a request's
\* arrival query reads all come from one fetched bundle, however the requests
\* interleave at their awaits: the cache never holds tables of two bundles.
C13_OneBundleRead == OneBundle(cache)

\* request 1 is suspended in its realtime refresh, past its static load, and
\* the tables it will read are those of the bundle request 2 has stored
C13_Witness ==
    /\ pc[1] \in {"rt_trips", "rt_alerts"}
    /\ \A i \in 1..Len(Files) : cache[Files[i]] # None /\ cache[Files[i]].ver = 2

\* C14: concurrent refreshes of one feed are coalesced: at most one fetch of
\* the static bundle is in flight at a time, and at most one realtime refresh.
C14_RefreshesCoalesced ==
    /\ Cardinality({r \in Reqs : pc[r] = "gtfs_fetch"}) <= 1
    /\ Cardinality({r \in Reqs : InRtRefresh(r)}) <= 1

\* C19: under any interleaving of display requests gtfs_loaded_at and
\* rt_loaded_at never decrease, so that the snapshot of a refresh that started
\* later is never overwritten by the result of one that started earlier.
C19_LoadedAtMonotonic ==
    [][/\ cache'.gtfs_loaded_at >= cache.gtfs_loaded_at
       /\ cache'.rt_loaded_at >= cache.rt_loaded_at]_vars

\* the candidate rows of the query after the time-window step, each with the
\* service of its trip
WindowCandidates ==
    IF cache.stop_times = None \/ cache.trips = None \/ cache.routes = None THEN <<>>
    ELSE MergeTrips(Upcoming(StopRows(cache.stop_times, q.stop_id), q.at % DaySeconds),
                    cache.trips)

\* the row belongs to a service that is active at the time of the query
OnActiveService(r) ==
    cache.trips.hasService /\ r.service_id \in active_service_ids_for_today(cache, q.at)

DepSecs(rows) == {rows[i].dep_sec : i \in 1..Len(rows)}

\* the returned rows are the earliest departures of the candidates: some, when
\* there is a candidate, with no candidate departure before the last one skipped
EarliestOf(cands) ==
    /\ cands # <<>> => q.rows # <<>>
    /\ DepSecs(q.rows) \subseteq DepSecs(cands)
    /\ \A d \in DepSecs(cands), e \in DepSecs(q.rows) : d < e => d \in DepSecs(q.rows)

\* C15: when the active service set is non-empty and some candidate row of the
\* time window is on an active service, every returned entry comes from a trip
\* of an active service; when the set is empty or no candidate row is on an
\* active service, the filter is skipped and the result is drawn from the
\* unfiltered candidates, so it is not emptied by the filter.
C15_ActiveServiceFilter ==
    q.fn = "arrivals"
    => LET cands == WindowCandidates
           active == SelectSeq(cands, OnActiveService)
       IN IF active # <<>>
          THEN /\ \A i \in 1..Len(q.rows) : OnActiveService(q.rows[i])
               /\ EarliestOf(active)
          ELSE EarliestOf(cands)

\* the window holds a row of an active service and a row of another one, and
\* the entries returned are those of the active service
C15_Witness ==
    /\ q.fn = "arrivals"
    /\ \E i, j \in 1..Len(WindowCandidates) :
          /\ OnActiveService(WindowCandidates[i])
          /\ ~OnActiveService(WindowCandidates[j])
          /\ WindowCandidates[j].dep_sec < WindowCandidates[i].dep_sec
    /\ q.rows # <<>>

\* the departures of the queried stop's StopTimes inside the 4h window, and
\* those from now on
DepsInWindow ==
    {x.dep_sec : x \in {y \in StopTimesOfStop :
        y.dep_sec >= (q.at % DaySeconds) /\ y.dep_sec <= (q.at % DaySeconds) + 4 * 3600}}
DepsFromNow ==
    {x.dep_sec : x \in {y \in StopTimesOfStop : y.dep_sec >= (q.at % DaySeconds)}}

\* C16: if some StopTime of the stop has dep_sec in [now_sec, now_sec + 4h],
\* every returned entry has dep_sec in that interval; if none has, the entries
\* are drawn from all StopTimes of the stop with dep_sec >= now_sec, with no
\* upper bound; if there is none of those either, the result is empty.
C16_TimeWindow ==
    q.fn = "arrivals"
    => /\ DepsInWindow # {} => DepSecs(q.rows) \subseteq DepsInWindow
       /\ DepsInWindow = {}
            => /\ DepSecs(q.rows) \subseteq DepsFromNow
               /\ (DepsFromNow # {} /\ cache.trips # None /\ cache.routes # None)
                     => q.rows # <<>>
       /\ DepsFromNow = {} => q.rows = <<>>

\* no departure of the stop is inside the window, one is beyond it and is
\* returned
C16_Witness ==
    /\ q.fn = "arrivals"
    /\ DepsInWindow = {}
    /\ \E i \in 1..Len(q.rows) : q.rows[i].dep_sec > (q.at % DaySeconds) + 4 * 3600

\* no row of calendar_dates.txt names the service on today's date
NoExceptionToday(sid) ==
    \/ cache.calendar_dates = None
    \/ \A i \in 1..Len(cache.calendar_dates.rows) :
          LET r == cache.calendar_dates.rows[i]
          IN ~(r.service_id = sid /\ r.date = Today(q.at).int)

\* some CalendarRule of the service contains today
RuleInRange(sid) ==
    /\ cache.calendar # None
    /\ \E i \in 1..Len(cache.calendar.rows) :
          LET r == cache.calendar.rows[i]
          IN /\ r.service_id = sid
             /\ r.start_date <= Today(q.at).int /\ Today(q.at).int <= r.end_date

\* C17 as stated: a service with no CalendarException dated today is in the
\* returned set if and only if some CalendarRule for it contains today and has
\* the flag of today's weekday set.
C17_RuleMembership ==
    q.fn = "active"
    => \A sid \in ServiceIds :
          NoExceptionToday(sid) => (sid \in q.active <=> RuleSelects(sid))

\* C17, amended: a service with no CalendarException dated today is in the
\* returned set if and only if some CalendarRule for it contains today and has
\* the flag of today's weekday set, or calendar.txt has no column for today's
\* weekday and some CalendarRule for it contains today.
C17_RuleMembershipByColumn ==
    q.fn = "active"
    => \A sid \in ServiceIds :
          NoExceptionToday(sid)
          => (sid \in q.active
                <=> IF cache.calendar # None /\ Today(q.at).wd \in cache.calendar.wdcols
                    THEN RuleSelects(sid)
                    ELSE RuleInRange(sid))

\* neither service has an exception today, both have a rule that contains
\* today, and only the one whose rule has today's weekday set is returned
C17_Witness ==
    /\ q.fn = "active"
    /\ NoExceptionToday("WK") /\ NoExceptionToday("SA")
    /\ RuleInRange("WK") /\ RuleInRange("SA")
    /\ RuleSelects("WK") /\ ~RuleSelects("SA")
    /\ q.active = {"WK"}

RECURSIVE FirstNonEmpty(_)
\* the first translation of a text that is not blank, stripped; <<>> if none
FirstNonEmpty(translations) ==
    IF translations = <<>> THEN <<>>
    ELSE IF Strip(Head(translations)) # <<>> THEN Strip(Head(translations))
    ELSE FirstNonEmpty(Tail(translations))

\* the first non-empty translation of the header, else of the description
ClaimedText(alert) ==
    IF FirstNonEmpty(alert.header) # <<>> THEN FirstNonEmpty(alert.header)
    ELSE FirstNonEmpty(alert.desc)

\* C18: the display text of a kept alert is the first non-empty translation of
\* its header text if there is one, else the first non-empty translation of
\* its description text; an alert is skipped only when neither has one. Seen
\* on a query without a filter, which keeps every alert, and whose text fits.
C18_FirstNonEmptyTranslation ==
    (q.fn = "alerts" /\ cache.alerts # None /\ q.route_filter = NoFilter
       /\ q.max_len = DefaultMaxLen)
    => LET alerts == SelectSeq(cache.alerts.entity, LAMBDA e : e.hasAlert)
           withText == SelectSeq(alerts, LAMBDA e : ClaimedText(e) # <<>>)
           msgs == [i \in 1..Len(withText) |-> ClaimedText(withText[i])]
       IN q.text = IF msgs = <<>> THEN NoAlertsText ELSE JoinWith(Separator, msgs)

\* C20: for every string "<route_label> <minutes>" that
\* next_scheduled_arrivals_for_stop emits, the client's parse_route_mins
\* returns that same route label and that same integer minutes, never
\* (None, None).
C20_LineRoundTrip ==
    q.fn = "arrivals"
    => \A i \in 1..Len(q.out) :
          q.parsed[i] = [ok |-> TRUE, route |-> q.rows[i].route,
                         mins |-> (q.rows[i].dep_sec - (q.at % DaySeconds)) \div 60]

====
